---- MODULE Spec2Model ----
(***************************************************************************)
(* Model of the daily B3 options report orchestrator                       *)
(* (src/src/python/orchestrator.py, src/src/python/mailer.py).             *)
(*                                                                         *)
(* Two invocations of main() run as separate processes on one machine and  *)
(* share the files under data/processed: the per-date lock file            *)
(* (.lock-<date>) and the per-date fetch artifact (cotahist_<date>.parquet).*)
(* Every file-system call of DateLock is one atomic step, so the runs can  *)
(* interleave between os.open, exists, stat and unlink as real processes   *)
(* do.  Collaborator calls (the R script, the analyzer, the PDF renderer,   *)
(* the SMTP server) return one of their possible outcomes.                 *)
(*                                                                         *)
(* An execution starts either one invocation or two.  For one invocation   *)
(* every input and every collaborator outcome is explored.  For two        *)
(* concurrent invocations each input and collaborator outcome takes its    *)
(* usual value and the exploration is over the interleavings of the runs   *)
(* with each other, the clock, Ctrl+C and the operator.                    *)
(***************************************************************************)
EXTENDS Integers, Sequences, FiniteSets, TLC

\* ---------------------------------------------------------------- bounds
\* largest value of config scheduling.retries that is explored
MaxRetries == 4
\* hours by which one Tick advances the wall clock
ClockStep == 12
\* largest number of rows of a parquet table that is explored
MaxRows == 2

\* ------------------------------------------------------ program constants
TTL_HOURS == 24
SECONDS_PER_HOUR == 3600
MAIL_MAX_RETRIES == 3
ALERT_MAX_RETRIES == 2
MIN_PDF_KB == 10
EXIT_INTERRUPTED == 130
SECONDS_PER_MINUTE == 60
\* the fetch backoff multiplier 1.5, as a fraction
FETCH_BACKOFF_NUM == 3
FETCH_BACKOFF_DEN == 2
MAIL_BASE_WAIT == 5
MAIL_BACKOFF == 2
\* values of config scheduling.retry_interval_minutes that are explored
RetryMinutes == {1, 5}
\* a duration in seconds as a fraction; no sleep yet
NoWait == [num |-> 0, den |-> 1]

Runs == {"r1", "r2"}
Dates == {"D1", "D2"}
MaxClock == TTL_HOURS

NoFile == [present |-> FALSE]
\* contents a lock file left behind by an earlier execution may have
ExtContents == {"stamp", "junk"}
ExtFile(c) == [present |-> TRUE, mtime |-> 0, creator |-> "ext", content |-> c]

Phases == <<"fetch", "analyze", "render", "deliver">>

VARIABLES
    now,       \* wall clock, in hours
    lock,      \* lock[d]: the file data/processed/.lock-<d>
    parquet,   \* parquet[d]: the artifact data/processed/cotahist_<d>.parquet
    run        \* run[r]: the state of one invocation of main()

vars == <<now, lock, parquet, run>>

\* the same fetch stage under the other setting of --fast-retry, before it starts
NoOther ==
    [ pc          |-> "none",
      fetch_state |-> "pending",
      exc         |-> "none",
      fast_retry  |-> FALSE,
      max_retries |-> 0,
      attempt     |-> 0,
      invocations |-> 0,
      waits       |-> 0,
      result      |-> "none",
      retry_interval |-> 0,
      slept       |-> NoWait ]

\* config['filters'] before it is read
NoFilters == [max_operations |-> 0, min_financial_volume |-> 0, top_n |-> 0]

\* the stats dictionary before analyze_options has built it
NoStats == [total_options |-> 0, total_volume |-> 0, after_filters |-> 0, top_n_volume |-> 0]

\* the dates the runs may be started for
DateChoices(r) == IF r = "r1" THEN {"D1"} ELSE Dates

NewRun ==
    [ pc           |-> "start",
      date         |-> "none",
      exit_code    |-> 0,
      exc          |-> "none",      \* exception in flight / caught by main
      lock_file    |-> FALSE,       \* DateLock.lock_file is set
      started      |-> << >>,       \* phases started, in order
      interrupted  |-> FALSE,       \* Ctrl+C was delivered during a phase
      \* locals of run_r_download
      force        |-> FALSE,
      fast_retry   |-> FALSE,
      max_retries  |-> 0,
      attempt      |-> 0,
      invocations  |-> 0,
      waits        |-> 0,
      result       |-> "none",      \* how the latest subprocess.run ended
      retry_interval |-> 0,         \* base of the backoff, in seconds
      slept        |-> NoWait,      \* the latest time.sleep of the fetch loop
      fetch_state  |-> "pending",
      other        |-> NoOther,     \* the stage replayed with the other --fast-retry
      \* locals of analyze_options
      table        |-> << >>,       \* df as read from the parquet
      stats        |-> NoStats,     \* the stats dictionary
      \* results handed from phase to phase
      rows         |-> "none",
      filters      |-> NoFilters,   \* config['filters'] as passed to analyze_options
      top          |-> << >>,       \* df_top, the rows analyze_options returned
      pdf_kb       |-> 0,
      email_on     |-> "unset",
      \* locals of send_email_with_retry
      mail_for     |-> "none",
      mail_max     |-> 0,
      mail_attempt |-> 0,
      mail_waits   |-> 0,
      mail_slept   |-> 0,           \* the latest time.sleep of the mail loop, seconds
      mail_result  |-> "none",
      \* failure notification
      notify       |-> "none" ]

Init ==
    /\ now \in {0, TTL_HOURS}
    /\ lock \in [Dates -> {NoFile} \cup {ExtFile(c) : c \in ExtContents}]
    /\ lock["D2"] = NoFile
    /\ parquet \in [Dates -> {"absent", "empty", "partial", "full"}]
    /\ parquet["D2"] = "absent"
    /\ \E started \in {{"r1"}, Runs} : run = [r \in started |-> NewRun]

\* the invocations of main() of this execution
Started == DOMAIN run

Upd(r, rec) == run' = [run EXCEPT ![r] = rec]

\* the values explored for an input or a collaborator outcome
Pick(S, usual) == IF Started = {"r1"} THEN S ELSE {usual}

\* ------------------------------------------------------------ exceptions
\* main's except clauses, applied to the exception that leaves the try body
Dispatch(rec) ==
    IF rec.exc = "none"
    THEN [rec EXCEPT !.pc = "done"]
    ELSE IF rec.exc = "KeyboardInterrupt"
         THEN [rec EXCEPT !.pc = "done", !.exit_code = EXIT_INTERRUPTED]
         ELSE [rec EXCEPT !.pc = "handler"]

\* mutant: the except clauses run while the with block is still open
RaiseSkipsRelease(rec, e) == Dispatch([rec EXCEPT !.exc = e])

\* an exception raised inside the with block: __exit__ runs first
Raise(rec, e) == [rec EXCEPT !.exc = e, !.pc = "rel_exists"]

\* --------------------------------------------------------------- startup
\* load_config, then the date from --date or from get_last_business_day
Startup(r) ==
    /\ run[r].pc = "start"
    /\ \E cfg \in Pick({"ok", "missing"}, "ok"),
          date_arg \in Pick({"valid", "invalid", "none", "no_business_day"}, "valid"),
          d \in DateChoices(r) :
         Upd(r, IF cfg = "missing"
                THEN Dispatch([run[r] EXCEPT !.exc = "ConfigError"])
                ELSE IF date_arg = "invalid"
                     THEN [run[r] EXCEPT !.pc = "done", !.exit_code = 1, !.exc = "BadDate"]
                     ELSE IF date_arg = "no_business_day"
                          THEN Dispatch([run[r] EXCEPT !.exc = "BusinessDayError"])
                          ELSE [run[r] EXCEPT !.pc = "acq_open", !.date = d])
    /\ UNCHANGED <<now, lock, parquet>>

\* -------------------------------------------------------------- DateLock
\* mutant: the age in seconds is compared with the ttl in hours
age_hours_unconverted(f) == (now - f.mtime) * SECONDS_PER_HOUR

age_hours(f) == ((now - f.mtime) * SECONDS_PER_HOUR) \div SECONDS_PER_HOUR

\* mutant: one lock file for all dates
AcqOpenGlobalLock(r) ==
    /\ run[r].pc = "acq_open"
    /\ LET d == "D1" IN
       IF lock[d].present
       THEN /\ Upd(r, [run[r] EXCEPT !.pc = "acq_exists"])
            /\ UNCHANGED lock
       ELSE /\ lock' = [lock EXCEPT ![d] =
                          [present |-> TRUE, mtime |-> now, creator |-> r, content |-> "empty"]]
            /\ Upd(r, [run[r] EXCEPT !.pc = "acq_write"])
    /\ UNCHANGED <<now, parquet>>

\* os.open(lock_path, O_CREAT | O_EXCL | O_WRONLY)
AcqOpen(r) ==
    /\ run[r].pc = "acq_open"
    /\ LET d == run[r].date IN
       IF lock[d].present
       THEN /\ Upd(r, [run[r] EXCEPT !.pc = "acq_exists"])
            /\ UNCHANGED lock
       ELSE /\ lock' = [lock EXCEPT ![d] =
                          [present |-> TRUE, mtime |-> now, creator |-> r, content |-> "empty"]]
            /\ Upd(r, [run[r] EXCEPT !.pc = "acq_write"])
    /\ UNCHANGED <<now, parquet>>

\* except FileExistsError: if not lock_path.exists(): continue
AcqExists(r) ==
    /\ run[r].pc = "acq_exists"
    /\ Upd(r, [run[r] EXCEPT !.pc = IF lock[run[r].date].present THEN "acq_stat" ELSE "acq_open"])
    /\ UNCHANGED <<now, lock, parquet>>

\* mutant: only a lock file with the expected content is taken for stale
AcqStatReadsContent(r) ==
    /\ run[r].pc = "acq_stat"
    /\ LET f == lock[run[r].date] IN
       Upd(r, IF ~f.present
              THEN Dispatch([run[r] EXCEPT !.exc = "LockFileVanished"])
              ELSE IF age_hours(f) < TTL_HOURS \/ f.content # "stamp"
                   THEN Dispatch([run[r] EXCEPT !.exc = "LockHeld"])
                   ELSE [run[r] EXCEPT !.pc = "acq_unlink"])
    /\ UNCHANGED <<now, lock, parquet>>

\* mutant: __exit__ also runs when __enter__ raised LockHeld
AcqStatReleasesOnFail(r) ==
    /\ run[r].pc = "acq_stat"
    /\ LET f == lock[run[r].date] IN
       Upd(r, IF ~f.present
              THEN Dispatch([run[r] EXCEPT !.exc = "LockFileVanished"])
              ELSE IF age_hours(f) < TTL_HOURS
                   THEN Raise(run[r], "LockHeld")
                   ELSE [run[r] EXCEPT !.pc = "acq_unlink"])
    /\ UNCHANGED <<now, lock, parquet>>

\* lock_path.stat().st_mtime, the age test and the LockHeld error
AcqStat(r) ==
    /\ run[r].pc = "acq_stat"
    /\ LET f == lock[run[r].date] IN
       Upd(r, IF ~f.present
              THEN Dispatch([run[r] EXCEPT !.exc = "LockFileVanished"])
              ELSE IF age_hours(f) < TTL_HOURS
                   THEN Dispatch([run[r] EXCEPT !.exc = "LockHeld"])
                   ELSE [run[r] EXCEPT !.pc = "acq_unlink"])
    /\ UNCHANGED <<now, lock, parquet>>

\* mutant: a stale file that is already gone is not an error
AcqUnlinkIgnoresMissing(r) ==
    /\ run[r].pc = "acq_unlink"
    /\ LET d == run[r].date IN
       /\ lock' = [lock EXCEPT ![d] = NoFile]
       /\ Upd(r, [run[r] EXCEPT !.pc = "acq_open"])
    /\ UNCHANGED <<now, parquet>>

\* lock_path.unlink() of the stale file
AcqUnlink(r) ==
    /\ run[r].pc = "acq_unlink"
    /\ LET d == run[r].date IN
       IF lock[d].present
       THEN /\ lock' = [lock EXCEPT ![d] = NoFile]
            /\ Upd(r, [run[r] EXCEPT !.pc = "acq_open"])
       ELSE /\ Upd(r, Dispatch([run[r] EXCEPT !.exc = "StaleUnlinkFailed"]))
            /\ UNCHANGED lock
    /\ UNCHANGED <<now, parquet>>

\* os.fdopen, the two writes and the flush; the with body starts with phase 1
AcqWrite(r) ==
    /\ run[r].pc = "acq_write"
    /\ LET d == run[r].date IN
       lock' = IF lock[d].present /\ lock[d].creator = r
               THEN [lock EXCEPT ![d].content = "stamp", ![d].mtime = now]
               ELSE lock
    /\ Upd(r, [run[r] EXCEPT !.pc = "fetch_check", !.lock_file = TRUE,
                             !.started = Append(@, "fetch")])
    /\ UNCHANGED <<now, parquet>>

\* release: close the handle, then lock_path.exists()
RelExists(r) ==
    /\ run[r].pc = "rel_exists"
    /\ Upd(r, IF lock[run[r].date].present
              THEN [run[r] EXCEPT !.pc = "rel_unlink"]
              ELSE Dispatch(run[r]))
    /\ UNCHANGED <<now, lock, parquet>>

\* mutant: release closes the handle and leaves the file in place
RelUnlinkKeepsFile(r) ==
    /\ run[r].pc = "rel_unlink"
    /\ Upd(r, Dispatch(run[r]))
    /\ UNCHANGED <<now, lock, parquet>>

\* release: lock_path.unlink()
RelUnlink(r) ==
    /\ run[r].pc = "rel_unlink"
    /\ LET d == run[r].date IN
       IF lock[d].present
       THEN /\ lock' = [lock EXCEPT ![d] = NoFile]
            /\ Upd(r, Dispatch(run[r]))
       ELSE /\ Upd(r, Dispatch([run[r] EXCEPT !.exc = "ReleaseUnlinkFailed"]))
            /\ UNCHANGED lock
    /\ UNCHANGED <<now, parquet>>

\* ------------------------------------------------- phase 1: run_r_download
NonEmpty == {"partial", "full"}

\* what one subprocess.run of the R script can do
InvokeOutcomes ==
    {[kind |-> "exit", code |-> 0, write |-> w] : w \in {"keep", "full", "empty"}}
    \cup {[kind |-> "exit", code |-> 1, write |-> w] : w \in {"keep", "partial"}}
    \cup {[kind |-> "timeout", code |-> 1, write |-> w] : w \in {"keep", "partial"}}
    \cup {[kind |-> "notfound", code |-> 1, write |-> "keep"],
          [kind |-> "oserror", code |-> 1, write |-> "keep"]}

Written(old, w) == IF w = "keep" THEN old ELSE w

\* the locals of run_r_download are gone once it has returned or raised
ClearFetch(rec) ==
    [rec EXCEPT !.force = FALSE, !.fast_retry = FALSE, !.max_retries = 0,
                !.attempt = 0, !.invocations = 0, !.waits = 0,
                !.result = "none", !.retry_interval = 0, !.slept = NoWait,
                !.other = NoOther]

\* mutant: the force flag is tested the wrong way round
FetchCheckForceInverted(r) ==
    /\ run[r].pc = "fetch_check"
    /\ \E force \in Pick(BOOLEAN, FALSE), fast \in Pick(BOOLEAN, FALSE),
          retries \in Pick(1..MaxRetries, MaxRetries) :
         Upd(r, IF force /\ parquet[run[r].date] # "absent" /\ parquet[run[r].date] \in NonEmpty
                THEN [run[r] EXCEPT !.pc = "fetch_return", !.fetch_state = "skipped"]
                ELSE [run[r] EXCEPT !.pc = "fetch_invoke", !.fetch_state = "attempting",
                                    !.force = force, !.fast_retry = fast,
                                    !.max_retries = retries, !.attempt = 1])
    /\ UNCHANGED <<now, lock, parquet>>

\* the idempotency test on the parquet, then the retry settings
FetchCheck(r) ==
    /\ run[r].pc = "fetch_check"
    /\ \E force \in Pick(BOOLEAN, FALSE), fast \in Pick(BOOLEAN, FALSE),
          retries \in Pick(1..MaxRetries, MaxRetries),
          minutes \in Pick(RetryMinutes, 5) :
         Upd(r, IF ~force /\ parquet[run[r].date] # "absent" /\ parquet[run[r].date] \in NonEmpty
                THEN [run[r] EXCEPT !.pc = "fetch_return", !.fetch_state = "skipped"]
                ELSE [run[r] EXCEPT !.pc = "fetch_invoke", !.fetch_state = "attempting",
                                    !.force = force, !.fast_retry = fast,
                                    !.max_retries = retries, !.attempt = 1,
                                    !.retry_interval =
                                        IF fast THEN 1 ELSE minutes * SECONDS_PER_MINUTE,
                                    !.other = [NoOther EXCEPT
                                        !.pc = "fetch_invoke",
                                        !.fetch_state = "attempting",
                                        !.fast_retry = ~fast,
                                        !.max_retries = retries,
                                        !.attempt = 1,
                                        !.retry_interval =
                                            IF ~fast THEN 1 ELSE minutes * SECONDS_PER_MINUTE]])
    /\ UNCHANGED <<now, lock, parquet>>

\* mutant: the loop runs one attempt more than max_retries
FetchInvokeOneMore(r) ==
    /\ run[r].pc = "fetch_invoke"
    /\ run[r].attempt <= run[r].max_retries + 1
    /\ \E o \in Pick(InvokeOutcomes, [kind |-> "exit", code |-> 0, write |-> "full"]) :
         LET d      == run[r].date
             after  == Written(parquet[d], o.write)
             called == [run[r] EXCEPT !.invocations = @ + 1]
         IN  /\ parquet' = [parquet EXCEPT ![d] = after]
             /\ Upd(r,
                  IF o.kind = "notfound"
                  THEN [called EXCEPT !.pc = "fetch_return", !.fetch_state = "failed",
                                      !.exc = "CommandNotFound"]
                  ELSE IF o.kind = "exit" /\ o.code = 0 /\ after # "absent"
                  THEN [called EXCEPT !.pc = "fetch_return", !.fetch_state = "succeeded"]
                  ELSE IF called.attempt < called.max_retries + 1
                  THEN IF called.fast_retry
                       THEN [called EXCEPT !.attempt = @ + 1]
                       ELSE [called EXCEPT !.pc = "fetch_wait"]
                  ELSE [called EXCEPT !.pc = "fetch_return", !.fetch_state = "failed",
                                      !.exc = "FetchExhausted"])
    /\ UNCHANGED <<now, lock>>

\* how one subprocess.run ended, as the loop body tells the cases apart
ResultOf(o, after) ==
    IF o.kind = "exit"
    THEN IF o.code # 0 THEN "nonzero"
         ELSE IF after = "absent" THEN "missing" ELSE "success"
    ELSE o.kind

\* wait_seconds = retry_interval * (1.5 ** (attempt - 1))
wait_seconds(rec) ==
    [num |-> rec.retry_interval * FETCH_BACKOFF_NUM ^ (rec.attempt - 1),
     den |-> FETCH_BACKOFF_DEN ^ (rec.attempt - 1)]

\* mutant: the fetch backoff doubles like the mail backoff
AfterWaitDoubles(rec) ==
    [rec EXCEPT !.pc = "fetch_invoke", !.waits = @ + 1, !.attempt = @ + 1,
                !.slept = [num |-> rec.retry_interval * 2 ^ (rec.attempt - 1), den |-> 1]]

\* the backoff between two attempts: one sleep, then the next attempt
AfterWait(rec) ==
    [rec EXCEPT !.pc = "fetch_invoke", !.waits = @ + 1, !.attempt = @ + 1,
                !.slept = wait_seconds(rec)]

\* mutant: with --fast-retry the loop gives up instead of continuing
AttemptFastBreaks(rec, o, after) ==
    LET called == [rec EXCEPT !.invocations = @ + 1, !.result = ResultOf(o, after)]
    IN  IF o.kind = "notfound"
        THEN [called EXCEPT !.pc = "fetch_return", !.fetch_state = "failed",
                            !.exc = "CommandNotFound"]
        ELSE IF o.kind = "exit" /\ o.code = 0 /\ after # "absent"
        THEN [called EXCEPT !.pc = "fetch_return", !.fetch_state = "succeeded"]
        ELSE IF called.attempt < called.max_retries /\ ~called.fast_retry
        THEN [called EXCEPT !.pc = "fetch_wait"]
        ELSE [called EXCEPT !.pc = "fetch_return", !.fetch_state = "failed",
                            !.exc = "FetchExhausted"]

\* mutant: the backoff is also taken after the last attempt
AttemptWaitsAfterLast(rec, o, after) ==
    LET called == [rec EXCEPT !.invocations = @ + 1, !.result = ResultOf(o, after)]
    IN  IF o.kind = "notfound"
        THEN [called EXCEPT !.pc = "fetch_return", !.fetch_state = "failed",
                            !.exc = "CommandNotFound"]
        ELSE IF o.kind = "exit" /\ o.code = 0 /\ after # "absent"
        THEN [called EXCEPT !.pc = "fetch_return", !.fetch_state = "succeeded"]
        ELSE IF called.attempt <= called.max_retries
        THEN IF called.fast_retry
             THEN [called EXCEPT !.attempt = @ + 1]
             ELSE [called EXCEPT !.pc = "fetch_wait"]
        ELSE [called EXCEPT !.pc = "fetch_return", !.fetch_state = "failed",
                            !.exc = "FetchExhausted"]

\* mutant: a missing Rscript is logged and retried like any other error
AttemptRetriesNotFound(rec, o, after) ==
    LET called == [rec EXCEPT !.invocations = @ + 1, !.result = ResultOf(o, after)]
    IN  IF o.kind = "exit" /\ o.code = 0 /\ after # "absent"
        THEN [called EXCEPT !.pc = "fetch_return", !.fetch_state = "succeeded"]
        ELSE IF called.attempt < called.max_retries
        THEN IF called.fast_retry
             THEN [called EXCEPT !.attempt = @ + 1]
             ELSE [called EXCEPT !.pc = "fetch_wait"]
        ELSE [called EXCEPT !.pc = "fetch_return", !.fetch_state = "failed",
                            !.exc = "FetchExhausted"]

\* the body of the retry loop for the outcome o of subprocess.run, which
\* leaves the artifact in the state after
Attempt(rec, o, after) ==
    LET called == [rec EXCEPT !.invocations = @ + 1, !.result = ResultOf(o, after)]
    IN  IF o.kind = "notfound"
        THEN [called EXCEPT !.pc = "fetch_return", !.fetch_state = "failed",
                            !.exc = "CommandNotFound"]
        ELSE IF o.kind = "exit" /\ o.code = 0 /\ after # "absent"
        THEN [called EXCEPT !.pc = "fetch_return", !.fetch_state = "succeeded"]
        ELSE IF called.attempt < called.max_retries
        THEN IF called.fast_retry
             THEN [called EXCEPT !.attempt = @ + 1]
             ELSE [called EXCEPT !.pc = "fetch_wait"]
        ELSE [called EXCEPT !.pc = "fetch_return", !.fetch_state = "failed",
                            !.exc = "FetchExhausted"]

\* the stage with the other --fast-retry setting, given the same outcome
OtherAttempt(rec, o, after) ==
    IF rec.pc # "fetch_invoke"
    THEN rec
    ELSE LET next == Attempt(rec, o, after)
         IN  IF next.pc = "fetch_wait" THEN AfterWait(next) ELSE next

\* one iteration of the retry loop up to the backoff
FetchInvoke(r) ==
    /\ run[r].pc = "fetch_invoke"
    /\ run[r].attempt <= run[r].max_retries
    /\ \E o \in Pick(InvokeOutcomes, [kind |-> "exit", code |-> 0, write |-> "full"]) :
         LET d      == run[r].date
             after  == Written(parquet[d], o.write)
         IN  /\ parquet' = [parquet EXCEPT ![d] = after]
             /\ Upd(r, [Attempt(run[r], o, after)
                          EXCEPT !.other = OtherAttempt(run[r].other, o, after)])
    /\ UNCHANGED <<now, lock>>

\* time.sleep(wait_seconds), then the next iteration
FetchWait(r) ==
    /\ run[r].pc = "fetch_wait"
    /\ Upd(r, AfterWait(run[r]))
    /\ UNCHANGED <<now, lock, parquet>>

\* mutant: a failed download is logged and the analysis starts anyway
FetchReturnIgnoresFailure(r) ==
    /\ run[r].pc = "fetch_return"
    /\ Upd(r, [ClearFetch(run[r]) EXCEPT !.pc = "analyze", !.started = Append(@, "analyze")])
    /\ UNCHANGED <<now, lock, parquet>>

\* run_r_download returns the path or raises into the with block
FetchReturn(r) ==
    /\ run[r].pc = "fetch_return"
    /\ Upd(r, IF run[r].exc = "none"
              THEN [ClearFetch(run[r]) EXCEPT !.pc = "analyze", !.started = Append(@, "analyze")]
              ELSE Raise(ClearFetch(run[r]), run[r].exc))
    /\ UNCHANGED <<now, lock, parquet>>

\* ------------------------------------------------ phase 2: analyze_options
\* the rows of a parquet table, by the two columns the filters read
TableRows == [qtdneg : {0, 1, 2}, voltot : {1, 2}]

Tables == UNION {[1..n -> TableRows] : n \in 0..MaxRows}

\* values of config['filters'] that are explored
FilterConfigs == [max_operations : {1, 2}, min_financial_volume : {1, 2}, top_n : {-1, 1, 2}]

UsualTable == <<[qtdneg |-> 1, voltot |-> 2]>>

UsualFilters == [max_operations |-> 2, min_financial_volume |-> 1, top_n |-> 2]

\* df[df['qtdneg'] > 0]
CleanRows(t) == SelectSeq(t, LAMBDA x : x.qtdneg > 0)

\* mutant: the volume filter keeps the rows below the minimum
ApplyFiltersInverted(t, f) ==
    SelectSeq(t, LAMBDA x : x.qtdneg <= f.max_operations /\ x.voltot <= f.min_financial_volume)

\* df[(qtdneg <= max_operations) & (voltot >= min_financial_volume)]
ApplyFilters(t, f) ==
    SelectSeq(t, LAMBDA x : x.qtdneg <= f.max_operations /\ x.voltot >= f.min_financial_volume)

\* a has a larger ticket_medio = voltot / qtdneg than b (both qtdneg > 0)
TicketAbove(a, b) == a.voltot * b.qtdneg > b.voltot * a.qtdneg

\* x put into the sorted s behind every row whose ticket is not smaller
RECURSIVE InsertByTicket(_, _)
InsertByTicket(x, s) ==
    IF s = << >> THEN <<x>>
    ELSE IF TicketAbove(x, Head(s)) THEN <<x>> \o s
    ELSE <<Head(s)>> \o InsertByTicket(x, Tail(s))

\* sort_values('ticket_medio', ascending=False, kind='stable')
RECURSIVE SortByTicket(_)
SortByTicket(t) ==
    IF t = << >> THEN << >>
    ELSE InsertByTicket(t[Len(t)], SortByTicket(SubSeq(t, 1, Len(t) - 1)))

\* DataFrame.head(n): the first n rows, or all but the last -n rows for n < 0
head(t, n) ==
    IF n >= 0
    THEN SubSeq(t, 1, IF n < Len(t) THEN n ELSE Len(t))
    ELSE SubSeq(t, 1, IF Len(t) + n > 0 THEN Len(t) + n ELSE 0)

\* mutant: the filtered rows are cut to top_n without being sorted
analyze_options_unsorted(t, f) ==
    LET cleaned  == CleanRows(t)
        filtered == ApplyFilters(cleaned, f)
    IN  IF cleaned = << >> THEN << >>
        ELSE IF filtered = << >> THEN << >>
        ELSE head(filtered, f.top_n)

\* the rows analyze_options returns for the table t and the filters f
analyze_options(t, f) ==
    LET cleaned  == CleanRows(t)
        filtered == ApplyFilters(cleaned, f)
    IN  IF cleaned = << >> THEN << >>
        ELSE IF filtered = << >> THEN << >>
        ELSE head(SortByTicket(filtered), f.top_n)

\* df['voltot'].sum()
RECURSIVE SumVoltot(_)
SumVoltot(t) == IF t = << >> THEN 0 ELSE Head(t).voltot + SumVoltot(Tail(t))

\* mutant: the totals are taken after the cleaning step
analyze_stats_after_clean(t, f) ==
    LET cleaned  == CleanRows(t)
        filtered == ApplyFilters(cleaned, f)
        initial  == [NoStats EXCEPT !.total_options = Len(cleaned),
                                    !.total_volume = SumVoltot(cleaned)]
    IN  IF cleaned = << >> \/ filtered = << >>
        THEN [initial EXCEPT !.after_filters = 0, !.top_n_volume = 0]
        ELSE [initial EXCEPT !.after_filters = Len(filtered),
                             !.top_n_volume = SumVoltot(analyze_options(t, f))]

\* the stats dictionary analyze_options returns with its rows
analyze_stats(t, f) ==
    LET cleaned  == CleanRows(t)
        filtered == ApplyFilters(cleaned, f)
        initial  == [NoStats EXCEPT !.total_options = Len(t), !.total_volume = SumVoltot(t)]
    IN  IF cleaned = << >> \/ filtered = << >>
        THEN [initial EXCEPT !.after_filters = 0, !.top_n_volume = 0]
        ELSE [initial EXCEPT !.after_filters = Len(filtered),
                             !.top_n_volume = SumVoltot(analyze_options(t, f))]

\* the locals of analyze_options are gone once it has returned or raised
ClearAnalyze(rec) == [rec EXCEPT !.table = << >>, !.stats = NoStats]

\* mutant: an empty result of the filters is raised as an error
AnalyzeZeroFatal(r) ==
    /\ run[r].pc = "analyze"
    /\ \E o \in Pick({"invalid", "table"}, "table"), t \in Pick(Tables, UsualTable),
          f \in Pick(FilterConfigs, UsualFilters) :
         LET df_top == analyze_options(t, f) IN
         Upd(r, IF parquet[run[r].date] # "full" \/ o = "invalid"
                THEN [run[r] EXCEPT !.pc = "analyze_return", !.exc = "AnalyzeError"]
                ELSE IF df_top = << >>
                THEN [run[r] EXCEPT !.pc = "analyze_return", !.exc = "AnalyzeError",
                                    !.rows = "zero",
                                    !.table = t, !.filters = f, !.top = df_top,
                                    !.stats = analyze_stats(t, f)]
                ELSE [run[r] EXCEPT !.pc = "analyze_return",
                                    !.table = t, !.filters = f, !.top = df_top,
                                    !.stats = analyze_stats(t, f)])
    /\ UNCHANGED <<now, lock, parquet>>

\* analyze_options on the parquet: an error while reading and validating
\* it, or the top rows (possibly none) with the stats
Analyze(r) ==
    /\ run[r].pc = "analyze"
    /\ \E o \in Pick({"invalid", "table"}, "table"), t \in Pick(Tables, UsualTable),
          f \in Pick(FilterConfigs, UsualFilters) :
         LET df_top == analyze_options(t, f) IN
         Upd(r, IF parquet[run[r].date] # "full" \/ o = "invalid"
                THEN [run[r] EXCEPT !.pc = "analyze_return", !.exc = "AnalyzeError"]
                ELSE [run[r] EXCEPT !.pc = "analyze_return",
                                    !.table = t, !.filters = f, !.top = df_top,
                                    !.stats = analyze_stats(t, f)])
    /\ UNCHANGED <<now, lock, parquet>>

\* analyze_options raises into the with block, or returns df_top and stats
\* to main, which logs them and goes on to phase 3
AnalyzeReturn(r) ==
    /\ run[r].pc = "analyze_return"
    /\ Upd(r, IF run[r].exc = "none"
              THEN [ClearAnalyze(run[r]) EXCEPT
                      !.pc = "render",
                      !.rows = IF run[r].top = << >> THEN "zero" ELSE "some",
                      !.started = Append(@, "render")]
              ELSE Raise(ClearAnalyze(run[r]), run[r].exc))
    /\ UNCHANGED <<now, lock, parquet>>

\* ------------------- phase 3: generate_pdf, the size check, the mail switch
PdfSizes == {MIN_PDF_KB - 1, MIN_PDF_KB}

\* mutant: main only warns about a small PDF, as generate_pdf does
RenderSmallOnlyWarns(r) ==
    /\ run[r].pc = "render"
    /\ \E ok \in Pick(BOOLEAN, TRUE), kb \in Pick(PdfSizes, MIN_PDF_KB),
          enabled \in Pick(BOOLEAN, TRUE), no_email \in Pick(BOOLEAN, FALSE) :
         Upd(r, IF ~ok
                THEN Raise(run[r], "RenderError")
                ELSE IF enabled /\ ~no_email
                THEN [run[r] EXCEPT !.pc = "send_email", !.pdf_kb = kb, !.email_on = "on",
                                    !.started = Append(@, "deliver")]
                ELSE [run[r] EXCEPT !.pc = "rel_exists", !.pdf_kb = kb,
                                    !.email_on = IF no_email THEN "flag_off" ELSE "config_off"])
    /\ UNCHANGED <<now, lock, parquet>>

\* generate_pdf, the size test on the file, then the delivery switch
Render(r) ==
    /\ run[r].pc = "render"
    /\ \E ok \in Pick(BOOLEAN, TRUE), kb \in Pick(PdfSizes, MIN_PDF_KB),
          enabled \in Pick(BOOLEAN, TRUE), no_email \in Pick(BOOLEAN, FALSE) :
         Upd(r, IF ~ok
                THEN Raise(run[r], "RenderError")
                ELSE IF kb < MIN_PDF_KB
                THEN Raise([run[r] EXCEPT !.pdf_kb = kb], "PdfTooSmall")
                ELSE IF enabled /\ ~no_email
                THEN [run[r] EXCEPT !.pc = "send_email", !.pdf_kb = kb, !.email_on = "on",
                                    !.started = Append(@, "deliver")]
                ELSE [run[r] EXCEPT !.pc = "rel_exists", !.pdf_kb = kb,
                                    !.email_on = IF no_email THEN "flag_off" ELSE "config_off"])
    /\ UNCHANGED <<now, lock, parquet>>

\* ------------------------------------------------------ phase 4: send_email
ClearMail(rec) ==
    [rec EXCEPT !.mail_for = "none", !.mail_max = 0, !.mail_attempt = 0,
                !.mail_waits = 0, !.mail_slept = 0, !.mail_result = "none"]

\* credential and attachment validation, message assembly
SendEmail(r) ==
    /\ run[r].pc = "send_email"
    /\ \E valid \in Pick(BOOLEAN, TRUE) :
         Upd(r, IF ~valid
                THEN Raise(run[r], "MailConfigError")
                ELSE [run[r] EXCEPT !.pc = "smtp_try", !.mail_for = "report",
                                    !.mail_max = MAIL_MAX_RETRIES, !.mail_attempt = 1])
    /\ UNCHANGED <<now, lock, parquet>>

\* mutant: an authentication error is retried like any other SMTP error
SmtpTryRetriesAuth(r) ==
    /\ run[r].pc = "smtp_try"
    /\ run[r].mail_attempt <= run[r].mail_max
    /\ \E o \in Pick({"sent", "auth", "smtp_error", "other_error"}, "sent") :
         Upd(r, IF o = "sent"
                THEN [run[r] EXCEPT !.pc = "smtp_return", !.mail_result = "sent"]
                ELSE IF run[r].mail_attempt < run[r].mail_max
                THEN [run[r] EXCEPT !.pc = "smtp_wait",
                                    !.mail_result = IF o = "auth" THEN "auth" ELSE @]
                ELSE [run[r] EXCEPT !.pc = "smtp_return", !.mail_result = "exhausted"])
    /\ UNCHANGED <<now, lock, parquet>>

\* mutant: the delivery loop backs off after its last attempt and tries again
SmtpTryOneMore(r) ==
    /\ run[r].pc = "smtp_try"
    /\ run[r].mail_attempt <= run[r].mail_max + 1
    /\ \E o \in Pick({"sent", "auth", "smtp_error", "other_error"}, "sent") :
         Upd(r, IF o = "sent"
                THEN [run[r] EXCEPT !.pc = "smtp_return", !.mail_result = "sent"]
                ELSE IF o = "auth"
                THEN [run[r] EXCEPT !.pc = "smtp_return", !.mail_result = "auth"]
                ELSE IF run[r].mail_attempt < run[r].mail_max + 1
                THEN [run[r] EXCEPT !.pc = "smtp_wait"]
                ELSE [run[r] EXCEPT !.pc = "smtp_return", !.mail_result = "exhausted"])
    /\ UNCHANGED <<now, lock, parquet>>

\* one iteration of send_email_with_retry up to the backoff
SmtpTry(r) ==
    /\ run[r].pc = "smtp_try"
    /\ run[r].mail_attempt <= run[r].mail_max
    /\ \E o \in Pick({"sent", "auth", "smtp_error", "other_error"}, "sent") :
         Upd(r, IF o = "sent"
                THEN [run[r] EXCEPT !.pc = "smtp_return", !.mail_result = "sent"]
                ELSE IF o = "auth"
                THEN [run[r] EXCEPT !.pc = "smtp_return", !.mail_result = "auth"]
                ELSE IF run[r].mail_attempt < run[r].mail_max
                THEN [run[r] EXCEPT !.pc = "smtp_wait"]
                ELSE [run[r] EXCEPT !.pc = "smtp_return", !.mail_result = "exhausted"])
    /\ UNCHANGED <<now, lock, parquet>>

\* mutant: the mail backoff triples
SmtpWaitTriples(r) ==
    /\ run[r].pc = "smtp_wait"
    /\ Upd(r, [run[r] EXCEPT !.pc = "smtp_try", !.mail_waits = @ + 1, !.mail_attempt = @ + 1,
                             !.mail_slept = MAIL_BASE_WAIT * 3 ^ (run[r].mail_attempt - 1)])
    /\ UNCHANGED <<now, lock, parquet>>

\* wait = 5 * (2 ** (attempt - 1)); time.sleep(wait), then the next iteration
SmtpWait(r) ==
    /\ run[r].pc = "smtp_wait"
    /\ Upd(r, [run[r] EXCEPT !.pc = "smtp_try", !.mail_waits = @ + 1, !.mail_attempt = @ + 1,
                             !.mail_slept = MAIL_BASE_WAIT * MAIL_BACKOFF ^ (run[r].mail_attempt - 1)])
    /\ UNCHANGED <<now, lock, parquet>>

\* mutant: send_failure_alert lets the SMTP error escape to main
SmtpReturnAlertRaises(r) ==
    /\ run[r].pc = "smtp_return"
    /\ LET res  == run[r].mail_result
           back == ClearMail(run[r])
       IN  Upd(r, IF res = "sent"
                  THEN IF run[r].mail_for = "report"
                       THEN [back EXCEPT !.pc = "rel_exists"]
                       ELSE [back EXCEPT !.pc = "done", !.notify = "sent"]
                  ELSE Raise(back, IF res = "auth" THEN "AuthenticationFailed"
                                                   ELSE "MailExhausted"))
    /\ UNCHANGED <<now, lock, parquet>>

\* mutant: a failed alert changes the exit code of the run
SmtpReturnAlertSetsCode(r) ==
    /\ run[r].pc = "smtp_return"
    /\ LET res  == run[r].mail_result
           back == ClearMail(run[r])
       IN  Upd(r, IF run[r].mail_for = "report"
                  THEN IF res = "sent"
                       THEN [back EXCEPT !.pc = "rel_exists"]
                       ELSE Raise(back, IF res = "auth" THEN "AuthenticationFailed"
                                                        ELSE "MailExhausted")
                  ELSE IF res = "sent"
                       THEN [back EXCEPT !.pc = "done", !.notify = "sent"]
                       ELSE [back EXCEPT !.pc = "done", !.notify = "alert_failed",
                                         !.exit_code = 2])
    /\ UNCHANGED <<now, lock, parquet>>

\* send_email_with_retry returns or raises to its caller:
\* send_email inside the with block, or send_failure_alert's try
SmtpReturn(r) ==
    /\ run[r].pc = "smtp_return"
    /\ LET res  == run[r].mail_result
           back == ClearMail(run[r])
       IN  Upd(r, IF run[r].mail_for = "report"
                  THEN IF res = "sent"
                       THEN [back EXCEPT !.pc = "rel_exists"]
                       ELSE Raise(back, IF res = "auth" THEN "AuthenticationFailed"
                                                        ELSE "MailExhausted")
                  ELSE [back EXCEPT !.pc = "done",
                                    !.notify = IF res = "sent" THEN "sent" ELSE "alert_failed"])
    /\ UNCHANGED <<now, lock, parquet>>

\* ---------------------------------------------------------------- Ctrl+C
PhasePcs == {"fetch_check", "fetch_invoke", "fetch_wait", "fetch_return",
             "analyze", "analyze_return", "render", "send_email", "smtp_try", "smtp_wait", "smtp_return"}

\* KeyboardInterrupt delivered while a phase is executing
Interrupt(r) ==
    /\ run[r].pc \in PhasePcs
    /\ run[r].mail_for # "alert"
    /\ Upd(r, Raise([ClearAnalyze(ClearMail(ClearFetch(run[r]))) EXCEPT !.interrupted = TRUE],
                    "KeyboardInterrupt"))
    /\ UNCHANGED <<now, lock, parquet>>

\* ------------------------------------------------- fatal error and alert
\* mutant: the handler sets the exit code and returns without any alert
HandlerNoAlert(r) ==
    /\ run[r].pc = "handler"
    /\ Upd(r, [run[r] EXCEPT !.pc = "done", !.exit_code = 1])
    /\ UNCHANGED <<now, lock, parquet>>

\* mutant: the handler forgets exit_code = 1
HandlerKeepsExitCode(r) ==
    /\ run[r].pc = "handler"
    /\ \E reload \in Pick({"failed", "alerts_off", "alerts_on"}, "alerts_on") :
         Upd(r, IF reload = "failed"
                THEN [run[r] EXCEPT !.pc = "done", !.notify = "reload_failed"]
                ELSE IF reload = "alerts_off"
                THEN [run[r] EXCEPT !.pc = "done", !.notify = "disabled"]
                ELSE [run[r] EXCEPT !.pc = "alert", !.notify = "called"])
    /\ UNCHANGED <<now, lock, parquet>>

\* mutant: the alert is sent whatever send_failure_alerts says
HandlerIgnoresSwitch(r) ==
    /\ run[r].pc = "handler"
    /\ \E reload \in Pick({"failed", "alerts_off", "alerts_on"}, "alerts_on") :
         Upd(r, IF reload = "failed"
                THEN [run[r] EXCEPT !.pc = "done", !.exit_code = 1, !.notify = "reload_failed"]
                ELSE IF reload = "alerts_off"
                THEN [run[r] EXCEPT !.pc = "alert", !.exit_code = 1, !.notify = "disabled"]
                ELSE [run[r] EXCEPT !.pc = "alert", !.exit_code = 1, !.notify = "called"])
    /\ UNCHANGED <<now, lock, parquet>>

\* except Exception: exit_code = 1, reload the configuration, call the alert
Handler(r) ==
    /\ run[r].pc = "handler"
    /\ \E reload \in Pick({"failed", "alerts_off", "alerts_on"}, "alerts_on") :
         Upd(r, IF reload = "failed"
                THEN [run[r] EXCEPT !.pc = "done", !.exit_code = 1, !.notify = "reload_failed"]
                ELSE IF reload = "alerts_off"
                THEN [run[r] EXCEPT !.pc = "done", !.exit_code = 1, !.notify = "disabled"]
                ELSE [run[r] EXCEPT !.pc = "alert", !.exit_code = 1, !.notify = "called"])
    /\ UNCHANGED <<now, lock, parquet>>

\* send_failure_alert up to its call of send_email_with_retry
Alert(r) ==
    /\ run[r].pc = "alert"
    /\ \E creds \in Pick({"complete", "incomplete", "key_error"}, "complete") :
         Upd(r, IF creds = "incomplete"
                THEN [run[r] EXCEPT !.pc = "done", !.notify = "no_credentials"]
                ELSE IF creds = "key_error"
                THEN [run[r] EXCEPT !.pc = "done", !.notify = "alert_failed"]
                ELSE [run[r] EXCEPT !.pc = "smtp_try", !.mail_for = "alert",
                                    !.mail_max = ALERT_MAX_RETRIES, !.mail_attempt = 1])
    /\ UNCHANGED <<now, lock, parquet>>

\* ----------------------------------------------------------- environment
Tick ==
    /\ now + ClockStep <= MaxClock
    /\ now' = now + ClockStep
    /\ UNCHANGED <<lock, parquet, run>>

\* an operator removes a lock file by hand, as the LockHeld message advises
ExternalDelete ==
    /\ \E d \in Dates :
         /\ lock[d].present
         /\ lock' = [lock EXCEPT ![d] = NoFile]
    /\ UNCHANGED <<now, parquet, run>>

\* an invocation of main() outside Started creates the lock file of a date
ExternalCreate ==
    /\ \E d \in Dates :
         /\ ~lock[d].present
         /\ lock' = [lock EXCEPT ![d] =
                       [present |-> TRUE, mtime |-> now, creator |-> "ext", content |-> "stamp"]]
    /\ UNCHANGED <<now, parquet, run>>

\* ------------------------------------------------------- specifications
RunStep ==
    \E r \in Started :
        \/ Startup(r)
        \/ AcqOpen(r)
        \/ AcqExists(r)
        \/ AcqStat(r)
        \/ AcqUnlink(r)
        \/ AcqWrite(r)
        \/ FetchCheck(r)
        \/ FetchInvoke(r)
        \/ FetchWait(r)
        \/ FetchReturn(r)
        \/ Analyze(r)
        \/ AnalyzeReturn(r)
        \/ Render(r)
        \/ SendEmail(r)
        \/ SmtpTry(r)
        \/ SmtpWait(r)
        \/ SmtpReturn(r)
        \/ Interrupt(r)
        \/ RelExists(r)
        \/ RelUnlink(r)
        \/ Handler(r)
        \/ Alert(r)

Next == RunStep \/ Tick \/ ExternalDelete

Spec == Init /\ [][Next]_vars

\* the closed system: the runs alone, no clock advance and no operator
SpecRuns == Init /\ [][RunStep]_vars

\* one run among other invocations that take and release the lock files;
\* the run itself is always scheduled again
InitOthers == Init /\ DOMAIN run = {"r1"}

NextOthers == Next \/ ExternalCreate

SpecOthers == InitOthers /\ [][NextOthers]_vars /\ WF_vars(RunStep)

\* ------------------------------------------------------------ vocabulary
\* the run is inside DateLock.acquire
InAcquire(r) == run[r].pc \in {"acq_open", "acq_exists", "acq_stat", "acq_unlink", "acq_write"}

\* the run is inside the with block, after acquire returned and before release
InBody(r) == run[r].pc \in PhasePcs /\ run[r].mail_for # "alert"

\* the lock file of the run's date is the one this run created
OwnFilePresent(r) ==
    /\ run[r].date \in Dates
    /\ lock[run[r].date].present
    /\ lock[run[r].date].creator = r

\* main has left the with block (or never entered it)
Left(r) == run[r].pc \in {"handler", "alert", "done"} \/ run[r].mail_for = "alert"

AlertCalled(r) == run[r].notify \in {"called", "sent", "alert_failed", "no_credentials"}

IsPrefix(s, t) == Len(s) <= Len(t) /\ \A i \in 1..Len(s) : s[i] = t[i]

\* ------------------------------------------------------------------ C1
\* C1: for any interleaving of runs for the same date, at most one run is
\* between a successful acquire and its release, also when the runs start on
\* a stale lock file and each takes the evict-then-recreate path.
C1_MutualExclusion ==
    \A a \in Started, b \in Started :
        (a # b /\ InBody(a) /\ InBody(b)) => run[a].date # run[b].date

\* ------------------------------------------------------------------ C2
\* C2: when the lock file exists with age below the ttl, the age check of
\* acquire raises LockHeld at once: no eviction, no further create attempt,
\* the file left as it is, whatever its age below the ttl and its content.
C2_FreshLockRejected ==
    [][\A r \in Started :
         ( /\ run[r].pc = "acq_stat"
           /\ run'[r].pc # "acq_stat"
           /\ lock[run[r].date].present
           /\ now - lock[run[r].date].mtime < TTL_HOURS )
         => ( /\ run'[r].exc = "LockHeld"
              /\ run'[r].pc = "handler"
              /\ ~run'[r].lock_file
              /\ lock' = lock )]_vars

C2_Witness ==
    \E r \in Started :
        /\ run[r].exc = "LockHeld"
        /\ lock[run[r].date].present
        /\ lock[run[r].date].content = "junk"
        /\ now - lock[run[r].date].mtime > 0
        /\ now - lock[run[r].date].mtime < TTL_HOURS

\* ------------------------------------------------------------------ C3
\* C3: once a run has acquired the lock, the lock file it created is absent
\* after the with block, on every exit path (success, failure, interrupt).
C3_LockReleasedOnExit ==
    \A r \in Started : (Left(r) /\ run[r].lock_file) => ~OwnFilePresent(r)

C3_Witness ==
    \E r \in Started :
        /\ run[r].pc = "done"
        /\ run[r].lock_file
        /\ run[r].exc = "FetchExhausted"
        /\ run[r].exit_code = 1

\* ------------------------------------------------------------------ C4
\* C4: an interrupt delivered while a phase is executing makes the run
\* return exit code 130 with its lock file absent.
C4_InterruptExits130 ==
    \A r \in Started :
        (run[r].pc = "done" /\ run[r].interrupted)
        => (run[r].exit_code = EXIT_INTERRUPTED /\ ~OwnFilePresent(r))

\* ------------------------------------------------------------------ C5
\* C5: the phases start in the order fetch, analyze, render, deliver, each
\* only after the one before it succeeded, and once a failure is in flight
\* no further phase starts.
PhaseOrder ==
    \A r \in Started :
        /\ IsPrefix(run[r].started, Phases)
        /\ Len(run[r].started) >= 1 => run[r].lock_file
        /\ Len(run[r].started) >= 2 => run[r].fetch_state \in {"skipped", "succeeded"}
        /\ Len(run[r].started) >= 3 => run[r].rows \in {"zero", "some"}
        /\ Len(run[r].started) >= 4 => run[r].pdf_kb >= MIN_PDF_KB

C5_PhasesInOrder ==
    /\ []PhaseOrder
    /\ [][\A r \in Started :
            run[r].exc # "none" => run'[r].started = run[r].started]_vars

C5_Witness ==
    \E r \in Started :
        /\ run[r].pc = "done"
        /\ run[r].exc = "AnalyzeError"
        /\ run[r].started = <<"fetch", "analyze">>

\* ------------------------------------------------------------------ C6
\* C6 as stated: every run that ends with exit code 1 has called
\* send_failure_alert before returning.
C6_AlwaysNotified ==
    \A r \in Started :
        (run[r].pc = "done" /\ run[r].exit_code = 1) => AlertCalled(r)

\* C6 as amended: a run that ends with exit code 1 has gone through the
\* notification path of the fatal-error handler, except for a bad --date,
\* which returns 1 with no notification; inside the path send_failure_alert
\* is called unless the reload failed or send_failure_alerts is false.
C6_NotifiedUnlessBadDate ==
    \A r \in Started :
        (run[r].pc = "done" /\ run[r].exit_code = 1)
        => IF run[r].exc = "BadDate"
           THEN run[r].notify = "none"
           ELSE AlertCalled(r) \/ run[r].notify \in {"reload_failed", "disabled"}

C6_Witness ==
    \E r \in Started :
        /\ run[r].pc = "done"
        /\ run[r].exit_code = 1
        /\ run[r].exc = "ConfigError"
        /\ run[r].notify = "sent"

\* ------------------------------------------------------------------ C7
\* C7: when acquire fails with LockHeld no phase is started, the external
\* command is never invoked, and the run ends with exit code 1.
C7_LockHeldStartsNothing ==
    \A r \in Started :
        run[r].exc = "LockHeld"
        => ( /\ Left(r)
             /\ run[r].started = << >>
             /\ run[r].invocations = 0
             /\ run[r].fetch_state = "pending"
             /\ run[r].pc = "done" => run[r].exit_code = 1 )

C7_Witness ==
    \E r \in Started :
        /\ run[r].pc = "done"
        /\ run[r].exc = "LockHeld"
        /\ run[r].exit_code = 1

\* ------------------------------------------------------------------ C8
\* C8: when the notification path itself fails (reload fails, credentials
\* missing, SMTP or authentication error) main still returns 1 for the
\* original failure.
C8_AlertFailureKeepsOutcome ==
    \A r \in Started :
        (run[r].pc = "done" /\ run[r].notify \in {"reload_failed", "no_credentials", "alert_failed"})
        => (run[r].exit_code = 1 /\ run[r].exc \notin {"none", "KeyboardInterrupt"})

C8_Witness ==
    \E r \in Started :
        /\ run[r].pc = "done"
        /\ run[r].notify = "alert_failed"
        /\ run[r].exc = "FetchExhausted"
        /\ run[r].exit_code = 1

\* ------------------------------------------------------------------ C9
\* C9: with a non-empty artifact and force false, run_r_download makes no
\* invocation of the external command and returns successfully.
C9_IdempotentSkip ==
    /\ [][\A r \in Started :
            ( /\ run[r].pc = "fetch_check"
              /\ run'[r].pc # "fetch_check"
              /\ ~run'[r].interrupted
              /\ ~run'[r].force
              /\ parquet[run[r].date] \in {"partial", "full"} )
            => ( /\ run'[r].fetch_state = "skipped"
                 /\ run'[r].pc = "fetch_return"
                 /\ run'[r].exc = "none"
                 /\ run'[r].invocations = 0
                 /\ parquet' = parquet )]_vars
    /\ [](\A r \in Started :
            run[r].fetch_state = "skipped"
            => ( /\ run[r].invocations = 0
                 /\ run[r].exc \notin {"CommandNotFound", "FetchExhausted"}
                 /\ run[r].pc \in {"fetch_return", "analyze"} => run[r].exc = "none" ))

C9_Witness ==
    \E r \in Started :
        /\ run[r].fetch_state = "skipped"
        /\ run[r].started = <<"fetch", "analyze">>
        /\ parquet[run[r].date] = "full"

C11_SuccessNeedsArtifact ==
    \A r \in Started :
        (run[r].pc = "fetch_return" /\ run[r].fetch_state = "succeeded")
        => parquet[run[r].date] \in NonEmpty

\* ----------------------------------------------------------------- C12
\* C12: an invocation that fails with CommandNotFound ends the fetch stage
\* as failed at once, on whichever attempt it happens: the error is raised
\* to main, and no further invocation and no backoff wait follows it.
C12_NotFoundNeverRetried ==
    /\ [](\A r \in Started :
            run[r].result = "notfound"
            => ( /\ run[r].pc = "fetch_return"
                 /\ run[r].fetch_state = "failed"
                 /\ run[r].exc = "CommandNotFound"
                 /\ run[r].invocations = run[r].attempt ))
    /\ [][\A r \in Started :
            run[r].exc = "CommandNotFound"
            => ( /\ run'[r].pc \notin {"fetch_invoke", "fetch_wait"}
                 /\ run'[r].invocations <= run[r].invocations
                 /\ run'[r].waits <= run[r].waits
                 /\ run'[r].fetch_state = "failed" )]_vars

C12_Witness ==
    \E r \in Started :
        /\ run[r].pc = "fetch_return"
        /\ run[r].result = "notfound"
        /\ run[r].invocations = 1
        /\ run[r].max_retries = MaxRetries
        /\ ~run[r].fast_retry
        /\ run[r].waits = 0

\* ----------------------------------------------------------------- C13
\* C13 as stated: when every attempt fails with a retryable kind and
\* max_retries = N, the stage makes exactly N invocations, performs exactly
\* N-1 backoff waits and ends in terminal failure.
C13_ExhaustedAfterWaits ==
    \A r \in Started :
        (run[r].pc = "fetch_return" /\ run[r].exc = "FetchExhausted")
        => ( /\ run[r].fetch_state = "failed"
             /\ run[r].invocations = run[r].max_retries
             /\ run[r].waits = run[r].max_retries - 1 )

\* C13 as amended: when every attempt fails with a retryable kind and
\* max_retries = N, the stage makes exactly N invocations and ends in
\* terminal failure; without --fast-retry it waits once between each pair
\* of consecutive attempts and never after the last (N-1 waits), with
\* --fast-retry it does not wait at all.
C13_ExhaustedWaitsUnlessFast ==
    \A r \in Started :
        /\ run[r].pc = "fetch_wait"
           => (run[r].attempt < run[r].max_retries /\ ~run[r].fast_retry)
        /\ ( /\ run[r].pc \in {"fetch_invoke", "fetch_wait", "fetch_return"}
             /\ run[r].fetch_state \in {"attempting", "succeeded", "failed"} )
           => run[r].waits = IF run[r].fast_retry THEN 0 ELSE run[r].attempt - 1
        /\ (run[r].pc = "fetch_return" /\ run[r].exc = "FetchExhausted")
           => ( /\ run[r].fetch_state = "failed"
                /\ run[r].result \in {"nonzero", "missing", "timeout", "oserror"}
                /\ run[r].invocations = run[r].max_retries
                /\ run[r].waits = IF run[r].fast_retry THEN 0 ELSE run[r].max_retries - 1 )

C13_Witness ==
    \E r \in Started :
        /\ run[r].pc = "fetch_return"
        /\ run[r].exc = "FetchExhausted"
        /\ run[r].result = "timeout"
        /\ ~run[r].fast_retry
        /\ run[r].max_retries = MaxRetries
        /\ run[r].invocations = MaxRetries
        /\ run[r].waits = MaxRetries - 1

\* ----------------------------------------------------------------- C14
\* C14: in every state of a fetch stage and of a delivery stage the number
\* of attempts made so far is at most the stage's configured maximum:
\* scheduling.retries for the fetch, max_retries for the delivery of the
\* report and of the failure alert.
C14_AttemptsBounded ==
    \A r \in Started :
        /\ run[r].attempt <= run[r].max_retries
        /\ run[r].invocations <= run[r].attempt
        /\ run[r].mail_attempt <= run[r].mail_max
        /\ run[r].mail_waits < run[r].mail_attempt \/ run[r].mail_attempt = 0
        /\ run[r].mail_for = "report" => run[r].mail_max = MAIL_MAX_RETRIES
        /\ run[r].mail_for = "alert" => run[r].mail_max = ALERT_MAX_RETRIES

C14_Witness ==
    \E r \in Started :
        /\ run[r].pc = "smtp_return"
        /\ run[r].mail_for = "report"
        /\ run[r].mail_result = "exhausted"
        /\ run[r].mail_attempt = MAIL_MAX_RETRIES
        /\ run[r].mail_waits = MAIL_MAX_RETRIES - 1

\* ----------------------------------------------------------------- C15
\* C15: fed the same sequence of outcomes of the external command, the
\* fetch stage with --fast-retry and the fetch stage without it go through
\* the same attempts, make the same number of invocations and end in the
\* same classification (succeeded, or failed with the same error); only
\* the number of waits differs.
C15_FastRetrySameOutcome ==
    \A r \in Started :
        ( /\ run[r].pc \in {"fetch_invoke", "fetch_wait", "fetch_return"}
          /\ run[r].fetch_state \in {"attempting", "succeeded", "failed"} )
        => ( /\ run[r].other.fast_retry # run[r].fast_retry
             /\ run[r].other.max_retries = run[r].max_retries
             /\ run[r].other.invocations = run[r].invocations
             /\ run[r].other.result = run[r].result
             /\ run[r].other.fetch_state = run[r].fetch_state
             /\ run[r].other.exc = run[r].exc
             /\ run[r].pc = "fetch_return" <=> run[r].other.pc = "fetch_return"
             /\ run[r].pc = "fetch_invoke" => run[r].other.attempt = run[r].attempt )

C15_Witness ==
    \E r \in Started :
        /\ run[r].pc = "fetch_return"
        /\ run[r].exc = "FetchExhausted"
        /\ run[r].fast_retry
        /\ run[r].invocations = MaxRetries
        /\ run[r].waits = 0
        /\ run[r].other.invocations = MaxRetries
        /\ run[r].other.waits = MaxRetries - 1

\* ----------------------------------------------------------------- C16
\* C16: with a single run and nobody else touching the files, a lock file
\* whose age is at least the ttl is deleted by acquire, which then creates
\* a fresh lock of its own and returns, whatever the old file contains:
\* acquire never ends in LockHeld or in another lock error.
C16_StaleLockEvicted ==
    \A r \in Started :
        (Started = {r} /\ now >= TTL_HOURS)
        => ( /\ run[r].exc \notin {"LockHeld", "LockFileVanished", "StaleUnlinkFailed"}
             /\ run[r].pc \in {"acq_exists", "acq_stat", "acq_unlink"}
                => ( /\ lock[run[r].date].present
                     /\ lock[run[r].date].creator = "ext"
                     /\ age_hours(lock[run[r].date]) >= TTL_HOURS )
             /\ run[r].pc = "acq_write"
                => (OwnFilePresent(r) /\ lock[run[r].date].mtime = now)
             /\ InBody(r)
                => ( /\ OwnFilePresent(r)
                     /\ lock[run[r].date].mtime = now
                     /\ lock[run[r].date].content = "stamp" ) )

C16_Witness ==
    \E r \in Started :
        /\ Started = {r}
        /\ run[r].pc = "acq_unlink"
        /\ lock[run[r].date].present
        /\ lock[run[r].date].content = "junk"
        /\ age_hours(lock[run[r].date]) >= TTL_HOURS

\* ----------------------------------------------------------------- C17
\* C17: release deletes the lock file only if the releasing run still owns
\* it: a run whose lock was evicted and re-created by another run leaves
\* the other run's lock file in place when it releases.
C17_ReleaseOnlyOwnLock ==
    [][\A r \in Started :
         ( /\ run[r].pc = "rel_unlink"
           /\ run'[r].pc # "rel_unlink"
           /\ lock[run[r].date].present
           /\ lock[run[r].date].creator # r )
         => lock'[run[r].date] = lock[run[r].date]]_vars

\* ----------------------------------------------------------------- C18
\* C18: when an external party deletes the lock file at any point after a
\* successful acquire and before the release is over, release raises no
\* error and leaves no lock file.
C18_ReleaseNeverRaises ==
    \A r \in Started :
        Started = {r} => run[r].exc # "ReleaseUnlinkFailed"

\* ----------------------------------------------------------------- C19
\* C19: an artifact left partially written by an invocation that timed out
\* or was killed does not make the idempotent skip of a later run pass: the
\* stage is skipped only on a complete artifact.
C19_PartialNotSkipped ==
    \A r \in Started :
        (run[r].pc = "fetch_return" /\ run[r].fetch_state = "skipped")
        => parquet[run[r].date] = "full"

C21_DisabledMailSkipsDelivery ==
    \A r \in Started :
        run[r].email_on \in {"flag_off", "config_off"}
        => ( /\ run[r].started = <<"fetch", "analyze", "render">>
             /\ run[r].mail_for # "report"
             /\ run[r].pc = "done" => run[r].exit_code = 0 )

\* ----------------------------------------------------------------- C22
\* C22: locks are per date: a lock file for one date, fresh, stale or held
\* by a running invocation, never makes acquire for another date fail, and
\* the steps of a run never create, modify or delete the lock file of a
\* date other than its own.
C22_LocksPerDate ==
    /\ [](\A r \in Started :
            run[r].date = "D2"
            => run[r].exc \notin {"LockHeld", "LockFileVanished", "StaleUnlinkFailed"})
    /\ [][\A r \in Started, d \in Dates :
            (run'[r] # run[r] /\ run'[r].date # d) => lock'[d] = lock[d]]_vars

C22_Witness ==
    \E a \in Started, b \in Started :
        /\ run[a].date = "D1" /\ InBody(a) /\ OwnFilePresent(a)
        /\ run[b].date = "D2" /\ InBody(b) /\ OwnFilePresent(b)

\* ----------------------------------------------------------------- C23
\* C23: a run that is invoking the external fetch command for a date is the
\* current holder of that date's lock: the lock file present is the one
\* this run created.
C23_FetcherHoldsLock ==
    \A r \in Started :
        run[r].pc = "fetch_invoke" => OwnFilePresent(r)

\* ----------------------------------------------------------------- C24
\* C24: a run that has terminated returned 0, 1 or 130: 0 exactly when all
\* phases succeeded or were skipped by configuration, 130 exactly when it
\* was interrupted by the user, 1 for every other failure.
C24_ExitCodes ==
    \A r \in Started :
        run[r].pc = "done"
        => ( /\ run[r].exit_code \in {0, 1, EXIT_INTERRUPTED}
             /\ run[r].exit_code = EXIT_INTERRUPTED <=> run[r].interrupted
             /\ run[r].exit_code = 0
                <=> ( /\ ~run[r].interrupted
                      /\ run[r].email_on \in {"on", "flag_off", "config_off"}
                      /\ run[r].email_on = "on" => run[r].started = Phases ) )

\* ----------------------------------------------------------------- C25
\* C25: without --fast-retry the wait after failed attempt k of the fetch
\* stage is retry_interval x 1.5^(k-1), so each wait is longer than the one
\* before; with an interval of 5 minutes the first three waits are 5, 7.5
\* and 11.25 minutes.
C25_FetchBackoff ==
    /\ [](\A r \in Started :
            (run[r].pc = "fetch_invoke" /\ run[r].waits >= 1)
            => LET k == run[r].attempt - 1
                   w == run[r].slept
               IN  /\ ~run[r].fast_retry
                   /\ w.num * 2 ^ (k - 1) = run[r].retry_interval * 3 ^ (k - 1) * w.den
                   /\ run[r].retry_interval = 5 * SECONDS_PER_MINUTE
                      => ( /\ k = 1 => w.num * 2 = 10 * SECONDS_PER_MINUTE * w.den
                           /\ k = 2 => w.num * 2 = 15 * SECONDS_PER_MINUTE * w.den
                           /\ k = 3 => w.num * 4 = 45 * SECONDS_PER_MINUTE * w.den ))
    /\ [][\A r \in Started :
            (run[r].pc = "fetch_wait" /\ run'[r].pc = "fetch_invoke" /\ run[r].waits >= 1)
            => run'[r].slept.num * run[r].slept.den > run[r].slept.num * run'[r].slept.den]_vars

C25_Witness ==
    \E r \in Started :
        /\ run[r].pc = "fetch_invoke"
        /\ run[r].retry_interval = 5 * SECONDS_PER_MINUTE
        /\ run[r].waits = 3
        /\ run[r].attempt = 4
        /\ run[r].slept.num * 4 = 45 * SECONDS_PER_MINUTE * run[r].slept.den

\* ----------------------------------------------------------------- C26
\* C26: the delivery stage has its own attempt counter: it starts at
\* attempt 1 whatever the fetch stage did, waits 5 x 2^(k-1) seconds after
\* failed attempt k, makes at most max_retries (3) attempts, and after the
\* last failed attempt ends in terminal failure without a further wait.
C26_DeliveryRetries ==
    /\ [](\A r \in Started :
            run[r].mail_for = "report"
            => ( /\ run[r].mail_max = MAIL_MAX_RETRIES
                 /\ run[r].mail_attempt \in 1..run[r].mail_max
                 /\ run[r].mail_waits = run[r].mail_attempt - 1
                 /\ run[r].attempt = 0 /\ run[r].waits = 0
                 /\ run[r].pc = "smtp_wait" => run[r].mail_attempt < run[r].mail_max
                 /\ run[r].mail_waits >= 1
                    => run[r].mail_slept = 5 * 2 ^ (run[r].mail_attempt - 2)
                 /\ run[r].mail_result = "exhausted"
                    => ( /\ run[r].pc = "smtp_return"
                         /\ run[r].mail_attempt = run[r].mail_max
                         /\ run[r].mail_waits = run[r].mail_max - 1 ) ))
    /\ [][\A r \in Started :
            (run[r].pc = "send_email" /\ run'[r].pc = "smtp_try")
            => (run'[r].mail_attempt = 1 /\ run'[r].mail_waits = 0)]_vars
    /\ [][\A r \in Started :
            (run[r].mail_for = "report" /\ run[r].mail_result = "exhausted" /\ run'[r] # run[r])
            => ( /\ run'[r].exc \in {"MailExhausted", "KeyboardInterrupt"}
                 /\ run'[r].pc = "rel_exists" )]_vars

C26_Witness ==
    \E r \in Started :
        /\ run[r].mail_for = "report"
        /\ run[r].pc = "smtp_try"
        /\ run[r].mail_attempt = 3
        /\ run[r].mail_slept = 10
        /\ run[r].fetch_state = "succeeded"

\* ----------------------------------------------------------------- C27
\* C27: an SMTPAuthenticationError during delivery is never retried: on
\* whichever attempt it happens the delivery ends at once, with no further
\* SMTP attempt and no wait, and the run is fatal with exit code 1.
C27_AuthNeverRetried ==
    /\ [](\A r \in Started :
            /\ run[r].mail_result = "auth" => run[r].pc = "smtp_return"
            /\ run[r].exc = "AuthenticationFailed"
               => ( /\ run[r].mail_for # "report"
                    /\ run[r].pc = "done" => run[r].exit_code = 1 ))
    /\ [][\A r \in Started :
            (run[r].pc = "smtp_try" /\ run'[r].mail_result = "auth")
            => ( /\ run'[r].mail_attempt = run[r].mail_attempt
                 /\ run'[r].mail_waits = run[r].mail_waits )]_vars
    /\ [][\A r \in Started :
            (run[r].mail_for = "report" /\ run[r].mail_result = "auth" /\ run'[r] # run[r])
            => ( /\ run'[r].exc \in {"AuthenticationFailed", "KeyboardInterrupt"}
                 /\ run'[r].pc = "rel_exists" )]_vars

C27_Witness ==
    \E r \in Started :
        /\ run[r].pc = "done"
        /\ run[r].exc = "AuthenticationFailed"
        /\ run[r].exit_code = 1
        /\ run[r].started = Phases

\* ----------------------------------------------------------------- C28
\* C28: send_failure_alert never passes a failure on to main: whatever
\* happens inside it (sender, password or recipients missing, SMTP errors
\* until its attempts are used up, authentication error) it returns
\* normally, and with missing credentials it makes no SMTP attempt.
C28_AlertNeverPropagates ==
    /\ [][\A r \in Started :
            ((run[r].pc = "alert" \/ run[r].mail_for = "alert") /\ run'[r] # run[r])
            => ( /\ run'[r].exc = run[r].exc
                 /\ run'[r].exit_code = run[r].exit_code
                 /\ \/ ( /\ run'[r].pc \in {"smtp_try", "smtp_wait", "smtp_return"}
                         /\ run'[r].mail_for = "alert"
                         /\ run'[r].mail_max = ALERT_MAX_RETRIES )
                    \/ ( /\ run'[r].pc = "done"
                         /\ run'[r].notify \in {"sent", "alert_failed", "no_credentials"} ) )]_vars
    /\ [][\A r \in Started :
            (run[r].pc = "alert" /\ run'[r].notify \in {"no_credentials"})
            => ( /\ run'[r].pc = "done"
                 /\ run'[r].mail_for = "none"
                 /\ run'[r].mail_attempt = 0 )]_vars

C28_Witness ==
    \E r \in Started :
        /\ run[r].pc = "done"
        /\ run[r].notify = "no_credentials"
        /\ run[r].exc = "AnalyzeError"
        /\ run[r].exit_code = 1

\* ----------------------------------------------------------------- C29
\* C29: DateLock.acquire always terminates: whatever other processes do to
\* the lock file, a run that is in acquire and keeps being scheduled
\* eventually leaves it, with the lock or with an error.
C29_AcquireTerminates ==
    \A r \in {"r1"} : InAcquire(r) ~> ~InAcquire(r)

Passing(t, f) ==
    SelectSeq(t, LAMBDA x : /\ x.qtdneg > 0
                            /\ x.qtdneg <= f.max_operations
                            /\ x.voltot >= f.min_financial_volume)

SameTicket(a, b) == a.voltot * b.qtdneg = b.voltot * a.qtdneg

\* top is a choice of rows of cand, by position g, that is ordered by
\* ticket_medio from the largest down, leaves out no row with a larger
\* ticket than a chosen one, and among equal tickets keeps the input order
\* and prefers the earlier row
TopChoice(top, cand) ==
    \E g \in [1..Len(top) -> 1..Len(cand)] :
        /\ \A i \in 1..Len(top) : top[i] = cand[g[i]]
        /\ \A i \in 1..Len(top), j \in 1..Len(top) : i # j => g[i] # g[j]
        /\ \A i \in 1..Len(top), j \in 1..Len(top) :
              i < j => /\ ~TicketAbove(top[j], top[i])
                       /\ SameTicket(top[i], top[j]) => g[i] < g[j]
        /\ \A i \in 1..Len(top), k \in 1..Len(cand) :
              (\A j \in 1..Len(top) : g[j] # k)
              => /\ ~TicketAbove(cand[k], top[i])
                 /\ SameTicket(cand[k], top[i]) => g[i] < k

\* the smaller of two numbers
Least(a, b) == IF a < b THEN a ELSE b

\* C31 as stated: the rows analyze_options returns are ordered by
\* ticket_medio = voltot / qtdneg from the largest down, and they are the
\* top_n rows with the largest ticket among the rows that pass the filters
\* (all of them when fewer pass), ties in input order.
C31_TopByTicket ==
    \A r \in Started :
        run[r].pc = "analyze_return"
        => LET cand == Passing(run[r].table, run[r].filters)
               n    == run[r].filters.top_n
           IN  /\ TopChoice(run[r].top, cand)
               /\ Len(run[r].top) = Least(IF n > 0 THEN n ELSE 0, Len(cand))

\* C31 as amended: the returned rows are ordered by ticket_medio from the
\* largest down and are the rows with the largest tickets among those that
\* pass the filters, ties in input order; their number is top_n (or all
\* that pass, when fewer) for top_n >= 0, and for a negative top_n all that
\* pass but the -top_n with the smallest tickets.
C31_TopByTicketAnyN ==
    \A r \in Started :
        run[r].pc = "analyze_return"
        => LET cand == Passing(run[r].table, run[r].filters)
               n    == run[r].filters.top_n
           IN  /\ TopChoice(run[r].top, cand)
               /\ n >= 0 => Len(run[r].top) = Least(n, Len(cand))
               /\ n < 0 => Len(run[r].top) = (IF Len(cand) + n > 0 THEN Len(cand) + n ELSE 0)

C31_Witness ==
    \E r \in Started :
        /\ run[r].pc = "analyze_return"
        /\ run[r].table = <<[qtdneg |-> 2, voltot |-> 2], [qtdneg |-> 1, voltot |-> 1]>>
        /\ run[r].filters = [max_operations |-> 2, min_financial_volume |-> 1, top_n |-> 1]
        /\ run[r].top = <<[qtdneg |-> 2, voltot |-> 2]>>

\* ----------------------------------------------------------------- C32
\* C32: when no row of the table passes the cleaning and the filters,
\* analyze_options does not raise: it returns an empty table and stats with
\* after_filters = 0, total_options the number of rows of the whole input
\* and total_volume the sum of voltot over the whole input, and main goes
\* on to phase 3 with zero rows.  It raises only before the stats exist.
C32_EmptyResultReturned ==
    /\ [](\A r \in Started :
            run[r].pc = "analyze_return"
            => ( /\ run[r].exc = "AnalyzeError"
                    => (run[r].table = << >> /\ run[r].stats = NoStats)
                 /\ (run[r].exc = "none" /\ Passing(run[r].table, run[r].filters) = << >>)
                    => ( /\ run[r].top = << >>
                         /\ run[r].stats.after_filters = 0
                         /\ run[r].stats.top_n_volume = 0
                         /\ run[r].stats.total_options = Len(run[r].table)
                         /\ run[r].stats.total_volume = SumVoltot(run[r].table) ) ))
    /\ [][\A r \in Started :
            ( /\ run[r].pc = "analyze_return"
              /\ run[r].exc = "none"
              /\ Passing(run[r].table, run[r].filters) = << >>
              /\ run'[r] # run[r]
              /\ ~run'[r].interrupted )
            => ( /\ run'[r].pc = "render"
                 /\ run'[r].exc = "none"
                 /\ run'[r].rows = "zero" )]_vars

C32_Witness ==
    \E r \in Started :
        /\ run[r].pc = "analyze_return"
        /\ run[r].exc = "none"
        /\ run[r].table = <<[qtdneg |-> 0, voltot |-> 2], [qtdneg |-> 2, voltot |-> 1]>>
        /\ run[r].filters = [max_operations |-> 1, min_financial_volume |-> 1, top_n |-> 2]
        /\ run[r].top = << >>
        /\ run[r].stats = [total_options |-> 2, total_volume |-> 3,
                           after_filters |-> 0, top_n_volume |-> 0]

\* ----------------------------------------------------------------- C33
\* C33: after an interrupt delivered during a phase the run only releases
\* the lock and ends with exit code 130: no further phase is started, the
\* fatal-error handler is not entered and send_failure_alert is not called.
C33_InterruptDirectToDone ==
    /\ [](\A r \in Started :
            run[r].interrupted
            => ( /\ run[r].pc \in {"rel_exists", "rel_unlink", "done"}
                 /\ run[r].notify = "none"
                 /\ run[r].mail_for = "none"
                 /\ run[r].pc = "done" => run[r].exit_code = EXIT_INTERRUPTED ))
    /\ [][\A r \in Started :
            run[r].interrupted => run'[r].started = run[r].started]_vars

\* ----------------------------------------------------------------- C34
\* C34: a run whose acquire failed with LockHeld ends with exit code 1
\* without a notification attempt: send_failure_alert is not called and no
\* alert mail is tried.
C34_LockHeldNotNotified ==
    \A r \in Started :
        run[r].exc = "LockHeld"
        => ( /\ ~AlertCalled(r)
             /\ run[r].mail_for = "none"
             /\ run[r].pc = "done" => run[r].exit_code = 1 )

\* ----------------------------------------------------------------- C35
\* C35: a run whose acquire fails with LockHeld leaves the lock file it
\* found as it is: the failing age test and every later step of that run
\* change no lock file, the run never holds a lock handle and never enters
\* release, so the holder's file is not removed by the failed run.
C35_LockHeldLeavesFile ==
    /\ [][\A r \in Started :
            (run'[r] # run[r] /\ run'[r].exc = "LockHeld")
            => ( /\ lock' = lock
                 /\ run'[r].pc \notin {"rel_exists", "rel_unlink"} )]_vars
    /\ [](\A r \in Started :
            run[r].exc = "LockHeld"
            => (~run[r].lock_file /\ run[r].pc \in {"handler", "alert", "smtp_try",
                                                     "smtp_wait", "smtp_return", "done"}))

C35_Witness ==
    \E r \in Started :
        /\ run[r].pc = "done"
        /\ run[r].exc = "LockHeld"
        /\ lock[run[r].date].present
        /\ lock[run[r].date].creator # r
        /\ lock[run[r].date].content = "stamp"

\* ----------------------------------------------------------------- C36
\* C36: after a failure inside the with block the lock is released before
\* the notification: a run that acquired the lock enters the fatal-error
\* handler only from release, and while it is in the handler, in
\* send_failure_alert or in the alert's SMTP attempts and waits, the lock
\* file it created is absent.
C36_ReleaseBeforeAlert ==
    /\ [](\A r \in Started :
            ( /\ run[r].lock_file
              /\ (run[r].pc \in {"handler", "alert"} \/ run[r].mail_for = "alert") )
            => ~OwnFilePresent(r))
    /\ [][\A r \in Started :
            (run'[r].pc = "handler" /\ run[r].pc # "handler" /\ run[r].lock_file)
            => run[r].pc \in {"rel_exists", "rel_unlink"}]_vars

C36_Witness ==
    \E r \in Started :
        /\ run[r].pc = "smtp_wait"
        /\ run[r].mail_for = "alert"
        /\ run[r].lock_file
        /\ run[r].exc = "RenderError"
        /\ ~lock[run[r].date].present

\* ----------------------------------------------------------------- C37
\* C37: acquire returns success only after its own exclusive create
\* succeeded: the writes are reached only from an os.open that created the
\* file, a failed create never leads to the writes, the writes change no
\* file created by anyone else, and when the unlink of a stale file fails
\* because the file is already gone acquire raises and holds nothing.
C37_AcquireOwnsCreatedFile ==
    /\ [][\A r \in Started :
            (run'[r].pc = "acq_write" /\ run[r].pc # "acq_write")
            => ( /\ run[r].pc = "acq_open"
                 /\ ~lock[run[r].date].present
                 /\ lock'[run[r].date].present
                 /\ lock'[run[r].date].creator = r )]_vars
    /\ [][\A r \in Started :
            (run[r].pc = "acq_open" /\ lock[run[r].date].present /\ run'[r] # run[r])
            => (run'[r].pc = "acq_exists" /\ ~run'[r].lock_file /\ lock' = lock)]_vars
    /\ [][\A r \in Started :
            (run[r].pc = "acq_write" /\ run'[r] # run[r])
            => ( /\ run'[r].lock_file
                 /\ \A d \in Dates :
                      lock'[d] # lock[d]
                      => (d = run[r].date /\ lock[d].present /\ lock[d].creator = r
                          /\ lock'[d].present /\ lock'[d].creator = r) )]_vars
    /\ [][\A r \in Started :
            (run[r].pc = "acq_unlink" /\ ~lock[run[r].date].present /\ run'[r] # run[r])
            => ( /\ run'[r].exc = "StaleUnlinkFailed"
                 /\ run'[r].pc = "handler"
                 /\ ~run'[r].lock_file
                 /\ lock' = lock )]_vars
    /\ [](\A r \in Started : run[r].lock_file => run[r].started # << >>)

C37_Witness ==
    \E r \in Started :
        /\ run[r].pc = "done"
        /\ run[r].exc = "StaleUnlinkFailed"
        /\ run[r].exit_code = 1
        /\ ~run[r].lock_file
        /\ run[r].started = << >>

\* ----------------------------------------------------------------- C38
\* C38: delivery never starts with a report below 10 KB: when generate_pdf
\* returns a file smaller than 10 KB the run fails in phase 3, the delivery
\* switch is not read, send_email is not called and the exit code is 1; a
\* run that has started delivery has a report of at least 10 KB.
C38_SmallReportNotDelivered ==
    \A r \in Started :
        /\ (run[r].pdf_kb # 0 /\ run[r].pdf_kb < MIN_PDF_KB)
           => ( /\ run[r].started = <<"fetch", "analyze", "render">>
                /\ run[r].email_on = "unset"
                /\ run[r].mail_for # "report"
                /\ run[r].pc # "send_email"
                /\ run[r].exc \in {"PdfTooSmall", "ReleaseUnlinkFailed"}
                /\ run[r].pc = "done" => run[r].exit_code = 1 )
        /\ (run[r].pc = "send_email" \/ run[r].mail_for = "report")
           => run[r].pdf_kb >= MIN_PDF_KB

C38_Witness ==
    \E r \in Started :
        /\ run[r].pc = "done"
        /\ run[r].pdf_kb = MIN_PDF_KB - 1
        /\ run[r].exc = "PdfTooSmall"
        /\ run[r].exit_code = 1
        /\ run[r].rows = "some"

\* ----------------------------------------------------------------- C39
\* C39: in the fatal-error handler send_failure_alert is called only when
\* the configuration was reloaded and email.send_failure_alerts is not
\* false; when the reload fails or the switch is false the run makes no
\* alert attempt at all and still returns exit code 1.
C39_AlertOnlyWhenEnabled ==
    /\ [](\A r \in Started :
            run[r].notify \in {"reload_failed", "disabled"}
            => ( /\ run[r].pc = "done"
                 /\ run[r].exit_code = 1
                 /\ run[r].mail_for = "none"
                 /\ run[r].mail_attempt = 0 ))
    /\ [][\A r \in Started :
            (run[r].pc = "handler" /\ run'[r] # run[r])
            => ( /\ run'[r].exit_code = 1
                 /\ run'[r].exc = run[r].exc
                 /\ \/ (run'[r].pc = "alert" /\ run'[r].notify = "called")
                    \/ (run'[r].pc = "done" /\ run'[r].notify \in {"reload_failed", "disabled"}) )]_vars
    /\ [][\A r \in Started :
            (run'[r].pc = "alert" /\ run[r].pc # "alert")
            => (run[r].pc = "handler" /\ run'[r].notify = "called")]_vars

C39_Witness ==
    \E r \in Started :
        /\ run[r].pc = "done"
        /\ run[r].notify = "disabled"
        /\ run[r].exc = "FetchExhausted"
        /\ run[r].exit_code = 1

\* ----------------------------------------------------------------- C40
\* C40: every run eventually returns from main: given that every
\* collaborator call and every invocation of the external command returns
\* or fails, and that the run keeps being scheduled, it reaches its return
\* on every path, lock failure and notification failure included.
C40_RunTerminates ==
    \A r \in {"r1"} : <>(run[r].pc = "done")

====
